---- MODULE Spec2Model ----
(***************************************************************************)
(* Model of fraud_utils.py: the feature schema, the boolean coercion       *)
(* _to_binary, the normaliser prepare_input_df, the lazily cached          *)
(* load_model and the prediction entry point predict_fraud.                *)
(*                                                                         *)
(* Python values are tagged records [t, n, s]: t is the Python type, n the *)
(* numeric payload (bool: 0/1, int: the integer, float: the value in       *)
(* tenths, inf: the sign) and s the characters of a str.  Probabilities    *)
(* are exact integers in thousandths (0.5 is 500).                         *)
(***************************************************************************)
EXTENDS Integers, Sequences, FiniteSets, TLC

VARIABLES
  _model,        \* the module global: None or the cached pipeline object
  file,          \* the artifact file mule_fraud_model.pkl beside the module
  joblibCalls,   \* joblib.load invocations so far
  deserialized,  \* objects joblib.load has returned so far
  call,          \* the last call made and its outcome
  pc,            \* the line of load_model each concurrent caller is at
  tmp,           \* the object each concurrent caller got from joblib.load
  ret            \* the object load_model returned to each concurrent caller

vars == <<_model, file, joblibCalls, deserialized, call, pc, tmp, ret>>

----------------------------------------------------------------------------
(* Bounds of the model *)

\* longest generated string handed to _to_binary
MaxStrLen == 2
\* largest magnitude of the generated int / float (in halves) inputs
MaxNum == 3
\* largest number of non-boolean schema fields a raw record omits
MaxMissing == 2
\* joblib.load invocations followed in one process
MaxJoblibCalls == 2
\* concurrent first callers of load_model
NumCallers == 3

----------------------------------------------------------------------------
(* Python values *)

PyBool(b) == [t |-> "bool", n |-> IF b THEN 1 ELSE 0, s |-> <<>>]
PyInt(i) == [t |-> "int", n |-> i, s |-> <<>>]
\* the float tenths/10
PyFloat(tenths) == [t |-> "float", n |-> tenths, s |-> <<>>]
PyNaN == [t |-> "nan", n |-> 0, s |-> <<>>]
PyInf(sign) == [t |-> "inf", n |-> sign, s |-> <<>>]
PyStr(chars) == [t |-> "str", n |-> 0, s |-> chars]
PyNone == [t |-> "NoneType", n |-> 0, s |-> <<>>]

\* isinstance(value, bool)
IsBool(value) == value.t = "bool"
\* isinstance(value, (int, float)): bool is a subclass of int; nan and inf are floats
IsIntOrFloat(value) == value.t \in {"bool", "int", "float", "nan", "inf"}
\* isinstance(value, str)
IsStr(value) == value.t = "str"

\* a call's outcome: exc = "" when it returned
Returned(v) == [exc |-> "", val |-> v]
Raised(e) == [exc |-> e, val |-> 0]

\* int(value) of a bool, int or float: truncation toward zero; nan and inf raise
PyIntOf(value) ==
  CASE value.t = "nan" -> Raised("ValueError")
    [] value.t = "inf" -> Raised("OverflowError")
    [] value.t = "float" ->
         Returned(IF value.n >= 0 THEN value.n \div 10 ELSE -((-value.n) \div 10))
    [] OTHER -> Returned(value.n)

\* str.strip(): leading and trailing whitespace removed
IsSpace(c) == c \in {" ", "\t", "\n"}

RECURSIVE lstrip(_)
lstrip(s) == IF s # <<>> /\ IsSpace(Head(s)) THEN lstrip(Tail(s)) ELSE s

RECURSIVE rstrip(_)
rstrip(s) ==
  IF s # <<>> /\ IsSpace(s[Len(s)]) THEN rstrip(SubSeq(s, 1, Len(s) - 1)) ELSE s

strip(s) == rstrip(lstrip(s))

\* str.lower() on the letters the inputs use
UpperCase == <<"A", "E", "F", "L", "N", "O", "R", "S", "T", "U", "Y">>
LowerCase == <<"a", "e", "f", "l", "n", "o", "r", "s", "t", "u", "y">>

LowerChar(c) ==
  IF \E i \in 1..Len(UpperCase) : UpperCase[i] = c
    THEN LowerCase[CHOOSE i \in 1..Len(UpperCase) : UpperCase[i] = c]
    ELSE c

lower(s) == [i \in 1..Len(s) |-> LowerChar(s[i])]

\* the token sets of _to_binary
TrueTokens == {<<"y", "e", "s">>, <<"y">>, <<"t", "r", "u", "e">>, <<"1">>}
FalseTokens == {<<"n", "o">>, <<"n">>, <<"f", "a", "l", "s", "e">>, <<"0">>}

----------------------------------------------------------------------------
(* _to_binary *)

ToBinaryStr(value) ==
  LET v == lower(strip(value.s))
  IN  IF v \in TrueTokens THEN Returned(1)
      ELSE IF v \in FalseTokens THEN Returned(0)
      ELSE Returned(0)

_to_binary(value) ==
  IF IsBool(value) THEN PyIntOf(value)
  ELSE IF IsIntOrFloat(value) THEN PyIntOf(value)
  ELSE IF IsStr(value) THEN ToBinaryStr(value)
  ELSE Returned(0)

----------------------------------------------------------------------------
(* Feature schema *)

FEATURES ==
  << "age", "city", "account_tenure_months", "avg_monthly_balance", "kyc_type",
     "total_inflow_24hr", "count_inflow_24hr", "count_unique_creditors_24hr",
     "total_outflow_24hr", "count_outflow_24hr",
     "time_diff_first_inflow_to_outflow", "percent_inflow_cashed_out_1hr",
     "velocity_inflow_1hr", "velocity_outflow_1hr", "device_change_last_48hr",
     "new_payee_added_last_7d", "international_ip_flag", "txn_amount",
     "txn_hour", "merchant_category" >>

BINARY_COLUMNS ==
  <<"device_change_last_48hr", "new_payee_added_last_7d", "international_ip_flag">>

Range(seq) == {seq[i] : i \in 1..Len(seq)}

FeatureSet == Range(FEATURES)
BinarySet == Range(BINARY_COLUMNS)
NonBinarySet == FeatureSet \ BinarySet

----------------------------------------------------------------------------
(* prepare_input_df *)

\* variant: the assignment reaches every boolean-like key of the dict
DictSet_Clobber(data, col, v) ==
  [k \in DOMAIN data \cup {col} |-> IF k \in BinarySet THEN v ELSE data[k]]

\* data[col] = v on a dict: the key is added when absent
DictSet(data, col, v) ==
  [k \in DOMAIN data \cup {col} |-> IF k = col THEN v ELSE data[k]]

\* the loop over BINARY_COLUMNS from column i on; a raising _to_binary ends it
RECURSIVE NormaliseBinary(_, _)
NormaliseBinary(data, i) ==
  IF i > Len(BINARY_COLUMNS) THEN [exc |-> "", data |-> data]
  ELSE LET col == BINARY_COLUMNS[i]
       IN  IF col \in DOMAIN data
             THEN LET r == _to_binary(data[col])
                  IN  IF r.exc # "" THEN [exc |-> r.exc, data |-> data]
                      ELSE NormaliseBinary(DictSet(data, col, PyInt(r.val)), i + 1)
             ELSE NormaliseBinary(DictSet(data, col, PyInt(0)), i + 1)

\* variant: only the first missing name is reported
Missing_FirstOnly(data) ==
  LET all == SelectSeq(FEATURES, LAMBDA f : f \notin DOMAIN data)
  IN  IF all = <<>> THEN <<>> ELSE <<Head(all)>>

\* [f for f in FEATURES if f not in data]
Missing(data) == SelectSeq(FEATURES, LAMBDA f : f \notin DOMAIN data)

\* variant: pd.DataFrame([data]), a column for every key of the dict
DataFrame_AllKeys(data) ==
  LET extra == DOMAIN data \ FeatureSet
      keys == IF extra = {} THEN FEATURES
              ELSE Append(FEATURES, CHOOSE k \in extra : TRUE)
  IN  [columns |-> keys, row |-> [i \in 1..Len(keys) |-> data[keys[i]]]]

\* pd.DataFrame([[data[f] for f in FEATURES]], columns=FEATURES)
DataFrame(data) ==
  [columns |-> FEATURES, row |-> [i \in 1..Len(FEATURES) |-> data[FEATURES[i]]]]

NoFrame == [columns |-> <<>>, row |-> <<>>]

MissingMsg == "Missing required feature(s)"

\* result: exc/msg of the exception raised ("" when it returned), the list the
\* message carries, and the frame returned
prepare_input_df(user_input) ==
  LET nb == NormaliseBinary(user_input, 1)
      missing == Missing(nb.data)
  IN  IF nb.exc # ""
        THEN [exc |-> nb.exc, msg |-> "", missing |-> <<>>, df |-> NoFrame]
      ELSE IF missing # <<>>
        THEN [exc |-> "ValueError", msg |-> MissingMsg, missing |-> missing,
              df |-> NoFrame]
      ELSE [exc |-> "", msg |-> "", missing |-> <<>>, df |-> DataFrame(nb.data)]

----------------------------------------------------------------------------
(* Inputs *)

Str_No == PyStr(<<"N", "o">>)
Str_Yes == PyStr(<<"Y", "e", "s">>)

\* strings of the kinds the UI and other callers send
NamedStrings ==
  { <<"Y", "e", "s">>, <<"N", "o">>, <<"y", "e", "s">>, <<"Y", "E", "S">>,
    <<" ", "y", "e", "s", " ">>, <<"n", "o">>, <<"N", "O">>,
    <<"t", "r", "u", "e">>, <<"T", "r", "u", "e">>, <<"\t", "T", "R", "U", "E", "\n">>,
    <<"f", "a", "l", "s", "e">>, <<"F", "a", "l", "s", "e">>, <<"n", "o", " ">>,
    <<"o", "n">>, <<"y", "e", "s", "!">>, <<"2">>, <<"1", ".", "0">> }

StrAlphabet == {" ", "y", "Y", "n", "N", "1", "0", "x"}

GeneratedStrings == UNION {[1..k -> StrAlphabet] : k \in 0..MaxStrLen}

\* the values handed to _to_binary
BinaryInputs ==
  {PyBool(TRUE), PyBool(FALSE), PyNaN, PyInf(1), PyInf(-1), PyNone}
    \cup {PyInt(i) : i \in (-MaxNum)..MaxNum}
    \cup {PyFloat(5 * h) : h \in (-2 * MaxNum)..(2 * MaxNum)}
    \cup {PyStr(s) : s \in NamedStrings \cup GeneratedStrings}

\* the values a raw record carries in a boolean-like field
FlagValues == {Str_No, Str_Yes, PyBool(TRUE), PyInt(2), PyFloat(15), PyNaN}

FeatureIndex(f) == CHOOSE i \in 1..Len(FEATURES) : FEATURES[i] = f

\* the value a complete raw record carries in a non-boolean field
BaseValue(f) ==
  CASE f = "city" -> PyStr(<<"P", "u", "n", "e">>)
    [] f = "kyc_type" -> PyStr(<<"F", "u", "l", "l">>)
    [] f = "merchant_category" -> PyStr(<<"F", "o", "o", "d">>)
    [] f = "txn_amount" -> PyFloat(200000)
    [] OTHER -> PyInt(10 * FeatureIndex(f))

ExtraKeys == {"customer_id"}

\* a raw record: the non-boolean fields except `omitted`, the boolean-like
\* fields of `flags` (a function from some of them to raw values), and `extra` keys
RawRecord(omitted, flags, extra) ==
  [k \in (NonBinarySet \ omitted) \cup DOMAIN flags \cup extra |->
     IF k \in DOMAIN flags THEN flags[k]
     ELSE IF k \in extra THEN PyInt(7)
     ELSE BaseValue(k)]

FlagAssignments == UNION {[B -> FlagValues] : B \in SUBSET BinarySet}

RECURSIVE SubsetsUpTo(_, _)
SubsetsUpTo(S, k) ==
  IF k = 0 \/ S = {} THEN {{}}
  ELSE LET x == CHOOSE y \in S : TRUE
           rest == S \ {x}
       IN  SubsetsUpTo(rest, k) \cup {T \cup {x} : T \in SubsetsUpTo(rest, k - 1)}

\* the boolean-like fields of the raw records that omit several fields
SparseFlagAssignments == UNION {[B -> {Str_Yes, PyNaN}] : B \in SUBSET BinarySet}

\* what a raw record leaves out, adds and carries in its boolean-like fields:
\* at most one non-boolean field omitted, with or without the extra keys, and
\* any raw values; or up to MaxMissing omitted
Shapes ==
  { <<omitted, extra, flags>> :
      omitted \in SubsetsUpTo(NonBinarySet, 1),
      extra \in SUBSET ExtraKeys,
      flags \in FlagAssignments }
    \cup
  { <<omitted, {}, flags>> :
      omitted \in SubsetsUpTo(NonBinarySet, MaxMissing),
      flags \in SparseFlagAssignments }

RawRecords == {RawRecord(shape[1], shape[3], shape[2]) : shape \in Shapes}

\* the raw records and thresholds handed to predict_fraud
FlagsUI ==
  [k \in BinarySet |-> IF k = "device_change_last_48hr" THEN Str_Yes ELSE Str_No]
FlagsNumeric ==
  [k \in {"device_change_last_48hr", "new_payee_added_last_7d"} |->
     IF k = "device_change_last_48hr" THEN PyBool(TRUE) ELSE PyInt(2)]
FlagsNaN ==
  [k \in BinarySet |-> IF k = "international_ip_flag" THEN PyNaN ELSE Str_No]

PredictInputs ==
  { RawRecord(omitted, flags, extra) :
      omitted \in {{}, {"age"}, {"city", "txn_hour"}},
      flags \in {FlagsUI, FlagsNumeric, FlagsNaN},
      extra \in {{}} }

\* threshold not supplied
NoThreshold == [given |-> FALSE, v |-> 0]

ThresholdArgs == {NoThreshold} \cup {[given |-> TRUE, v |-> v] : v \in {200, 731}}

----------------------------------------------------------------------------
(* State *)

\* _model = None
None == [id |-> 0, caps |-> {}]

Capabilities == {"predict_proba", "decision_function", "predict"}

NoFile == [exists |-> FALSE, ok |-> FALSE, caps |-> {}]

\* the artifact was not asked
NoAnswer == [exc |-> "", row |-> <<>>]

\* no call made yet
Idle ==
  [ op |-> "", arg |-> PyNone, user_input |-> <<>>, threshold |-> NoThreshold,
    exc |-> "", msg |-> "", val |-> 0, missing |-> <<>>, df |-> NoFrame,
    label |-> 0, proba |-> 0, invoked |-> <<>>, before |-> None,
    fileBefore |-> NoFile, model |-> None, answer |-> NoAnswer ]

Threads == 1..NumCallers

NoThreads ==
  /\ pc = [t \in Threads |-> "idle"]
  /\ tmp = [t \in Threads |-> None]
  /\ ret = [t \in Threads |-> None]

----------------------------------------------------------------------------
(* The normaliser as a state machine: one call of _to_binary or of         *)
(* prepare_input_df on an input of the bounded sets                        *)

InitNorm ==
  /\ _model = None
  /\ file = NoFile
  /\ joblibCalls = 0
  /\ deserialized = 0
  /\ call = Idle
  /\ NoThreads

ToBinaryCall ==
  /\ call.op = ""
  /\ \E value \in BinaryInputs :
       LET r == _to_binary(value)
       IN  call' = [Idle EXCEPT !.op = "_to_binary", !.arg = value,
                                !.exc = r.exc, !.val = r.val]
  /\ UNCHANGED <<_model, file, joblibCalls, deserialized, pc, tmp, ret>>

PrepareCall ==
  /\ call.op = ""
  /\ \E user_input \in RawRecords :
       LET r == prepare_input_df(user_input)
       IN  call' = [Idle EXCEPT !.op = "prepare_input_df",
                                !.user_input = user_input, !.exc = r.exc,
                                !.msg = r.msg, !.missing = r.missing, !.df = r.df]
  /\ UNCHANGED <<_model, file, joblibCalls, deserialized, pc, tmp, ret>>

NextNorm == ToBinaryCall \/ PrepareCall

SpecNorm == InitNorm /\ [][NextNorm]_vars

----------------------------------------------------------------------------
(* load_model *)

CorruptFile == [exists |-> TRUE, ok |-> FALSE, caps |-> {}]

\* an artifact file whose pickled pipeline (an object, never the pickle of
\* None) has the methods caps
ArtifactFile(caps) == [exists |-> TRUE, ok |-> TRUE, caps |-> caps]

Files == {NoFile, CorruptFile} \cup {ArtifactFile(c) : c \in SUBSET Capabilities}

\* variant: the file is read on every call, _model is never consulted
load_model_NoCache(m, f, n, d) ==
  IF ~f.exists
    THEN [exc |-> "FileNotFoundError", model |-> m, calls |-> n, objs |-> d,
          ret |-> None]
  ELSE IF ~f.ok
    THEN [exc |-> "UnpicklingError", model |-> m, calls |-> n + 1, objs |-> d,
          ret |-> None]
  ELSE LET obj == [id |-> d + 1, caps |-> f.caps]
       IN  [exc |-> "", model |-> obj, calls |-> n + 1, objs |-> d + 1, ret |-> obj]

\* variant: a missing file leaves a placeholder in _model
load_model_CacheFailure(m, f, n, d) ==
  IF m # None
    THEN [exc |-> "", model |-> m, calls |-> n, objs |-> d, ret |-> m]
  ELSE IF ~f.exists
    THEN [exc |-> "FileNotFoundError", model |-> [id |-> d + 1, caps |-> {}],
          calls |-> n, objs |-> d, ret |-> None]
  ELSE load_model_NoCache(m, f, n, d)

\* one run of load_model from module state m (_model), file f, n joblib.load
\* calls and d objects deserialized so far: the exception raised, the new
\* module state and counters, and the object returned.  A deserialized object
\* has its own identity id.
load_model(m, f, n, d) ==
  IF m = None
    THEN IF ~f.exists
           THEN [exc |-> "FileNotFoundError", model |-> m, calls |-> n,
                 objs |-> d, ret |-> None]
         ELSE IF ~f.ok
           THEN [exc |-> "UnpicklingError", model |-> m, calls |-> n + 1,
                 objs |-> d, ret |-> None]
         ELSE LET obj == [id |-> d + 1, caps |-> f.caps]
              IN  [exc |-> "", model |-> obj, calls |-> n + 1, objs |-> d + 1,
                   ret |-> obj]
    ELSE [exc |-> "", model |-> m, calls |-> n, objs |-> d, ret |-> m]

----------------------------------------------------------------------------
(* predict_fraud *)

\* threshold: float = 0.5, in thousandths
DefaultThreshold == 500

Threshold(arg) == IF arg.given THEN arg.v ELSE DefaultThreshold

\* variant: decision_function is probed first
SelectedCapability_MarginFirst(caps) ==
  IF "decision_function" \in caps THEN "decision_function"
  ELSE IF "predict_proba" \in caps THEN "predict_proba"
  ELSE "predict"

\* the hasattr cascade: the one method predict_fraud calls on the artifact
SelectedCapability(caps) ==
  IF "predict_proba" \in caps THEN "predict_proba"
  ELSE IF "decision_function" \in caps THEN "decision_function"
  ELSE "predict"

\* what the opaque artifact answers when its method cap is called: the
\* exception it raises, or its output's first row (predict_proba: the two class
\* probabilities, decision_function: the margin, predict: the class label)
ProbaValues == {0, 200, 500, 731, 1000}
Margins == {-1000, -1, 0, 1, 1000}

Answers(cap, caps) ==
  IF cap \notin caps THEN {[exc |-> "AttributeError", row |-> <<>>]}
  ELSE {[exc |-> "ScoringFailure", row |-> <<>>]} \cup
       ( CASE cap = "predict_proba" ->
                {[exc |-> "", row |-> <<1000 - p, p>>] : p \in ProbaValues}
           [] cap = "decision_function" ->
                {[exc |-> "", row |-> <<x>>] : x \in Margins}
           [] OTHER -> {[exc |-> "", row |-> <<y>>] : y \in {0, 1}} )

\* 1 / (1 + math.exp(-score)) in thousandths; math.exp overflows above 709.78
Sigmoid(score) ==
  CASE score < -709 -> Raised("OverflowError")
    [] score = -1 -> Returned(269)
    [] score = 0 -> Returned(500)
    [] score = 1 -> Returned(731)
    [] score > 36 -> Returned(1000)

\* the probability computed from the answer of the selected method
ProbaOf(cap, answer) ==
  CASE cap = "predict_proba" -> Returned(answer.row[2])
    [] cap = "decision_function" -> Sigmoid(answer.row[1])
    [] OTHER -> Returned(1000 * answer.row[1])

\* variant: int(proba > threshold)
Label_Strict(proba, threshold) == IF proba > threshold THEN 1 ELSE 0

\* int(proba >= threshold)
Label(proba, threshold) == IF proba >= threshold THEN 1 ELSE 0

\* X = prepare_input_df(user_input) for each raw record handed to
\* predict_fraud, evaluated once
PreparedInput == [user_input \in PredictInputs |-> prepare_input_df(user_input)]

\* no (label, probability) pair: the call raised exc; st is load_model's outcome
Failed(st, exc, msg, missing, invoked) ==
  [ exc |-> exc, msg |-> msg, missing |-> missing, df |-> NoFrame, label |-> 0,
    proba |-> 0, invoked |-> invoked, model |-> st.model, calls |-> st.calls,
    objs |-> st.objs ]

\* variant: the input is normalised before the artifact is obtained
predict_fraud_NormaliseFirst(m, f, n, d, user_input, threshold, answer) ==
  LET X == PreparedInput[user_input]
      lm == load_model(m, f, n, d)
      same == [model |-> m, calls |-> n, objs |-> d]
      cap == SelectedCapability(lm.ret.caps)
      p == ProbaOf(cap, answer)
  IN  IF X.exc # "" THEN Failed(same, X.exc, X.msg, X.missing, <<>>)
      ELSE IF lm.exc # "" THEN Failed(lm, lm.exc, "", <<>>, <<>>)
      ELSE IF answer.exc # ""
        THEN Failed(lm, answer.exc, "", <<>>,
                    IF cap \in lm.ret.caps THEN <<cap>> ELSE <<>>)
      ELSE IF p.exc # "" THEN Failed(lm, p.exc, "", <<>>, <<cap>>)
      ELSE [ exc |-> "", msg |-> "", missing |-> <<>>, df |-> X.df,
             label |-> Label(p.val, Threshold(threshold)), proba |-> p.val,
             invoked |-> <<cap>>, model |-> lm.model, calls |-> lm.calls,
             objs |-> lm.objs ]

\* one run of predict_fraud(user_input, threshold) in which the artifact
\* answers `answer` when its selected method is called
predict_fraud(m, f, n, d, user_input, threshold, answer) ==
  LET lm == load_model(m, f, n, d)
      X == PreparedInput[user_input]
      cap == SelectedCapability(lm.ret.caps)
      p == ProbaOf(cap, answer)
  IN  IF lm.exc # "" THEN Failed(lm, lm.exc, "", <<>>, <<>>)
      ELSE IF X.exc # "" THEN Failed(lm, X.exc, X.msg, X.missing, <<>>)
      ELSE IF answer.exc # ""
        THEN Failed(lm, answer.exc, "", <<>>,
                    IF cap \in lm.ret.caps THEN <<cap>> ELSE <<>>)
      ELSE IF p.exc # "" THEN Failed(lm, p.exc, "", <<>>, <<cap>>)
      ELSE [ exc |-> "", msg |-> "", missing |-> <<>>, df |-> X.df,
             label |-> Label(p.val, Threshold(threshold)), proba |-> p.val,
             invoked |-> <<cap>>, model |-> lm.model, calls |-> lm.calls,
             objs |-> lm.objs ]

----------------------------------------------------------------------------
(* The inference service, one call at a time: load_model and predict_fraud *)
(* calls of one process, between which the artifact file is written,       *)
(* damaged or deleted                                                      *)

Init ==
  /\ _model = None
  /\ file \in Files
  /\ joblibCalls = 0
  /\ deserialized = 0
  /\ call = Idle
  /\ NoThreads

LoadModelCall ==
  LET r == load_model(_model, file, joblibCalls, deserialized)
  IN  /\ r.calls <= MaxJoblibCalls
      /\ _model' = r.model
      /\ joblibCalls' = r.calls
      /\ deserialized' = r.objs
      /\ call' = [Idle EXCEPT !.op = "load_model", !.exc = r.exc,
                              !.before = _model, !.fileBefore = file,
                              !.model = r.ret]
      /\ UNCHANGED <<file, pc, tmp, ret>>

PredictFraudCall ==
  \E user_input \in PredictInputs, threshold \in ThresholdArgs :
    LET lm == load_model(_model, file, joblibCalls, deserialized)
        scored == lm.exc = "" /\ PreparedInput[user_input].exc = ""
        answers == IF scored
                     THEN Answers(SelectedCapability(lm.ret.caps), lm.ret.caps)
                     ELSE {NoAnswer}
    IN  \E answer \in answers :
          LET r == predict_fraud(_model, file, joblibCalls, deserialized,
                                 user_input, threshold, answer)
          IN  /\ r.calls <= MaxJoblibCalls
              /\ _model' = r.model
              /\ joblibCalls' = r.calls
              /\ deserialized' = r.objs
              /\ call' = [Idle EXCEPT !.op = "predict_fraud",
                                      !.user_input = user_input,
                                      !.threshold = threshold, !.exc = r.exc,
                                      !.msg = r.msg, !.missing = r.missing,
                                      !.df = r.df, !.label = r.label,
                                      !.proba = r.proba, !.invoked = r.invoked,
                                      !.before = _model, !.fileBefore = file,
                                      !.model = r.model, !.answer = answer]
              /\ UNCHANGED <<file, pc, tmp, ret>>

\* the training process writes, or someone damages or deletes, the artifact file
WriteFile ==
  /\ \E f \in Files \ {NoFile, file} : file' = f
  /\ call' = Idle
  /\ UNCHANGED <<_model, joblibCalls, deserialized, pc, tmp, ret>>

DeleteFile ==
  /\ file.exists
  /\ file' = NoFile
  /\ call' = Idle
  /\ UNCHANGED <<_model, joblibCalls, deserialized, pc, tmp, ret>>

Next == LoadModelCall \/ PredictFraudCall \/ WriteFile \/ DeleteFile

Spec == Init /\ [][Next]_vars

----------------------------------------------------------------------------
(* load_model under concurrent first access: NumCallers threads of one     *)
(* process (one per browser session) each run load_model once, a line at a *)
(* time                                                                    *)

InitConc ==
  /\ _model = None
  /\ file \in Files
  /\ joblibCalls = 0
  /\ deserialized = 0
  /\ call = Idle
  /\ pc = [t \in Threads |-> "l80"]
  /\ tmp = [t \in Threads |-> None]
  /\ ret = [t \in Threads |-> None]

\* if _model is None:
CheckCache(t) ==
  /\ pc[t] = "l80"
  /\ pc' = [pc EXCEPT ![t] = IF _model = None THEN "l83" ELSE "l86"]
  /\ UNCHANGED <<_model, file, joblibCalls, deserialized, call, tmp, ret>>

\* if not model_path.exists(): raise FileNotFoundError
CheckExists(t) ==
  /\ pc[t] = "l83"
  /\ pc' = [pc EXCEPT ![t] = IF file.exists THEN "l85" ELSE "FileNotFoundError"]
  /\ UNCHANGED <<_model, file, joblibCalls, deserialized, call, tmp, ret>>

\* joblib.load(model_path): a new object, or an exception on a damaged file
JoblibLoad(t) ==
  /\ pc[t] = "l85"
  /\ joblibCalls' = joblibCalls + 1
  /\ IF file.ok
       THEN /\ deserialized' = deserialized + 1
            /\ tmp' = [tmp EXCEPT ![t] = [id |-> deserialized + 1, caps |-> file.caps]]
            /\ pc' = [pc EXCEPT ![t] = "l85_store"]
       ELSE /\ pc' = [pc EXCEPT ![t] = "UnpicklingError"]
            /\ UNCHANGED <<deserialized, tmp>>
  /\ UNCHANGED <<_model, file, call, ret>>

\* _model = <the loaded object>
StoreModel(t) ==
  /\ pc[t] = "l85_store"
  /\ _model' = tmp[t]
  /\ pc' = [pc EXCEPT ![t] = "l86"]
  /\ UNCHANGED <<file, joblibCalls, deserialized, call, tmp, ret>>

\* return _model
ReturnModel(t) ==
  /\ pc[t] = "l86"
  /\ ret' = [ret EXCEPT ![t] = _model]
  /\ pc' = [pc EXCEPT ![t] = "done"]
  /\ UNCHANGED <<_model, file, joblibCalls, deserialized, call, tmp>>

NextConc ==
  \E t \in Threads :
    CheckCache(t) \/ CheckExists(t) \/ JoblibLoad(t) \/ StoreModel(t) \/ ReturnModel(t)

SpecConc == InitConc /\ [][NextConc]_vars

----------------------------------------------------------------------------
(* Claims about the normaliser, under SpecNorm *)

\* the normalised value in column f of a frame
Col(df, f) == df.row[FeatureIndex(f)]

\* the non-boolean schema fields a raw record omits, in schema order
OmittedNonBinary(u) ==
  SelectSeq(FEATURES, LAMBDA f : f \in NonBinarySet /\ f \notin DOMAIN u)

\* a supported representation of a boolean-like value: a bool, an int, a
\* finite float or a str
Supported(v) == v.t \in {"bool", "int", "float", "str"}

SupportedFlags(u) == \A col \in BinarySet \cap DOMAIN u : Supported(u[col])

\* C2: _to_binary returns exactly 0 or 1, without raising, for every bool,
\* int, float and str; yes/y/true/1 give 1 and no/n/false/0 give 0 whatever
\* the case and the surrounding whitespace, any other string and any other
\* type give 0; and so the three boolean-like columns of every normalised
\* record are 0 or 1.
C2_ToBinaryIsZeroOrOne ==
  /\ call.op = "_to_binary" =>
       /\ call.exc = ""
       /\ call.val \in {0, 1}
       /\ call.arg.t = "str" =>
            LET v == lower(strip(call.arg.s))
            IN  call.val = IF v \in TrueTokens THEN 1 ELSE 0
       /\ call.arg.t = "NoneType" => call.val = 0
  /\ (call.op = "prepare_input_df" /\ call.exc = "") =>
       \A col \in BinarySet : Col(call.df, col) \in {PyInt(0), PyInt(1)}

\* C3: a raw record holding all 17 non-boolean schema fields, its boolean-like
\* fields absent or in a supported representation, with or without extra keys,
\* normalises to one row whose columns are exactly the 20 names of FEATURES in
\* that order; no extra key is carried over and an absent boolean-like field
\* is 0.
C3_SchemaColumns ==
  ( /\ call.op = "prepare_input_df"
    /\ NonBinarySet \subseteq DOMAIN call.user_input
    /\ SupportedFlags(call.user_input) ) =>
       /\ call.exc = ""
       /\ call.df.columns = FEATURES
       /\ Len(call.df.columns) = 20
       /\ Len(call.df.row) = 20
       /\ \A k \in DOMAIN call.user_input \ FeatureSet :
            k \notin Range(call.df.columns)
       /\ \A col \in BinarySet \ DOMAIN call.user_input :
            Col(call.df, col) = PyInt(0)

C3_Witness ==
  /\ call.op = "prepare_input_df"
  /\ call.exc = ""
  /\ "customer_id" \in DOMAIN call.user_input
  /\ "new_payee_added_last_7d" \notin DOMAIN call.user_input
  /\ "device_change_last_48hr" \in DOMAIN call.user_input
  /\ call.df.columns = FEATURES

\* C9: normalisation passes each of the 17 non-boolean values through
\* unchanged, and two complete raw records that differ only in the raw value
\* of one boolean-like field normalise to records that agree on the other 19
\* fields; "No" there gives 0 and "Yes" gives 1.
C9_FrameOfNormalize ==
  (call.op = "prepare_input_df" /\ call.exc = "") =>
     /\ \A f \in NonBinarySet : Col(call.df, f) = call.user_input[f]
     /\ \A col \in BinarySet \cap DOMAIN call.user_input :
          \A v \in FlagValues :
            LET other == prepare_input_df([call.user_input EXCEPT ![col] = v])
            IN  other.exc = "" =>
                  /\ \A f \in FeatureSet \ {col} :
                       Col(other.df, f) = Col(call.df, f)
                  /\ v = Str_Yes => Col(other.df, col) = PyInt(1)
                  /\ v = Str_No => Col(other.df, col) = PyInt(0)

C9_Witness ==
  /\ call.op = "prepare_input_df"
  /\ call.exc = ""
  /\ BinarySet \subseteq DOMAIN call.user_input
  /\ call.user_input["device_change_last_48hr"] = Str_No
  /\ call.user_input["international_ip_flag"] = Str_Yes
  /\ Col(call.df, "device_change_last_48hr") = PyInt(0)
  /\ Col(call.df, "international_ip_flag") = PyInt(1)
  /\ Col(prepare_input_df([call.user_input EXCEPT
                             !["device_change_last_48hr"] = Str_Yes]).df,
         "device_change_last_48hr") = PyInt(1)

----------------------------------------------------------------------------
(* Claims about the inference service, under Spec *)

\* the artifact was Unloaded when the recorded call began
WasUnloaded == call.before = None

\* the recorded call obtained the artifact: it was cached, or the file held a
\* pipeline that deserializes
ObtainedArtifact == call.before # None \/ (call.fileBefore.exists /\ call.fileBefore.ok)

\* coercing some present boolean-like field of the raw record raises
CoercionRaises(u) ==
  \E col \in BinarySet \cap DOMAIN u : _to_binary(u[col]).exc # ""

\* the exception of the first boolean-like field, in BINARY_COLUMNS order,
\* whose coercion raises
FirstCoercionError(u) ==
  LET i == CHOOSE j \in 1..Len(BINARY_COLUMNS) :
             /\ BINARY_COLUMNS[j] \in DOMAIN u
             /\ _to_binary(u[BINARY_COLUMNS[j]]).exc # ""
             /\ \A k \in 1..(j - 1) :
                  BINARY_COLUMNS[k] \in DOMAIN u =>
                    _to_binary(u[BINARY_COLUMNS[k]]).exc = ""
  IN  _to_binary(u[BINARY_COLUMNS[i]]).exc

IsMissingFeatureError == call.exc = "ValueError" /\ call.msg = MissingMsg

\* C4 as stated: when the raw record omits a required non-boolean field,
\* predict fails with the missing-feature error listing exactly the omitted
\* non-boolean fields in schema order, returns no pair and does not score.
C4_AsStated ==
  (call.op = "predict_fraud" /\ OmittedNonBinary(call.user_input) # <<>>) =>
     /\ IsMissingFeatureError
     /\ call.missing = OmittedNonBinary(call.user_input)
     /\ call.invoked = <<>>

\* C4 amended: when the raw record omits a required non-boolean field, predict
\* fails, returns no pair and does not score.  If load_model failed the error
\* is load_model's; otherwise, if coercing a present boolean-like field raises,
\* the error is that conversion error; otherwise it is the missing-feature
\* error whose list is exactly the omitted non-boolean fields in schema order.
C4_MissingFeatures ==
  (call.op = "predict_fraud" /\ OmittedNonBinary(call.user_input) # <<>>) =>
     /\ call.exc # ""
     /\ call.invoked = <<>>
     /\ call.answer = NoAnswer
     /\ IF ~ObtainedArtifact
          THEN /\ call.exc = IF call.fileBefore.exists THEN "UnpicklingError"
                                                      ELSE "FileNotFoundError"
               /\ call.missing = <<>>
        ELSE IF CoercionRaises(call.user_input)
          THEN /\ call.exc = FirstCoercionError(call.user_input)
               /\ call.msg # MissingMsg
        ELSE /\ IsMissingFeatureError
             /\ call.missing = OmittedNonBinary(call.user_input)
             /\ \A i \in 1..Len(call.missing) : call.missing[i] \notin BinarySet

C4_Witness ==
  /\ call.op = "predict_fraud"
  /\ IsMissingFeatureError
  /\ call.missing = <<"city", "txn_hour">>
  /\ "new_payee_added_last_7d" \in DOMAIN call.user_input
  /\ "international_ip_flag" \notin DOMAIN call.user_input
  /\ call.invoked = <<>>

\* C5: a successful predict returns label 1 exactly when the returned
\* probability is at least the threshold, also when they are equal, and the
\* threshold is 0.5 when none is supplied.
C5_LabelIsThresholdComparison ==
  (call.op = "predict_fraud" /\ call.exc = "") =>
     LET thr == IF call.threshold.given THEN call.threshold.v ELSE 500
     IN  /\ call.label \in {0, 1}
         /\ call.label = 1 <=> call.proba >= thr

C5_Witness ==
  /\ call.op = "predict_fraud"
  /\ call.exc = ""
  /\ ~call.threshold.given
  /\ call.proba = 500
  /\ call.label = 1

\* C6: once Loaded the artifact stays Loaded and stays the same object: exactly
\* one object is ever deserialized, no later call runs joblib.load again, and
\* every later load_model returns the object loaded first, whatever has become
\* of the file.
C6_LoadedOnce ==
  /\ [](_model # None => deserialized = 1 /\ _model.id = 1)
  /\ [][_model # None =>
          /\ _model' = _model
          /\ deserialized' = deserialized
          /\ joblibCalls' = joblibCalls
          /\ call'.op = "load_model" => (call'.exc = "" /\ call'.model = _model)]_vars

C6_Witness ==
  /\ call.op = "load_model"
  /\ call.before # None
  /\ call.fileBefore # ArtifactFile(call.before.caps)
  /\ call.exc = ""
  /\ call.model = call.before
  /\ _model = call.before
  /\ deserialized = 1

\* C7: a load_model or predict call made while the artifact is Unloaded and
\* the file is absent fails with the model-not-found error, runs no
\* deserialization and leaves the artifact Unloaded; a call made while it is
\* Unloaded and the file holds a pipeline loads it.
C7_NotFoundIsNotCached ==
  [][call'.op # "" =>
       /\ (_model = None /\ ~file.exists) =>
            /\ call'.exc = "FileNotFoundError"
            /\ _model' = None
            /\ joblibCalls' = joblibCalls
            /\ deserialized' = deserialized
            /\ call'.invoked = <<>>
       /\ (_model = None /\ file.exists /\ file.ok) =>
            /\ _model' = [id |-> deserialized + 1, caps |-> file.caps]
            /\ deserialized' = deserialized + 1
            /\ joblibCalls' = joblibCalls + 1
            /\ call'.exc # "FileNotFoundError"]_vars

C7_Witness ==
  /\ call.op = "predict_fraud"
  /\ WasUnloaded
  /\ ~call.fileBefore.exists
  /\ call.exc = "FileNotFoundError"
  /\ _model = None
  /\ deserialized = 0

\* C8: a predict that scores calls exactly one method of the artifact, chosen
\* by priority: predict_proba when the artifact has it (the probability of
\* the positive class), else decision_function (its logistic transform), else
\* predict (a probability of exactly 0.0 or 1.0).  No predict calls more than
\* one.
C8_OneScoringPath ==
  call.op = "predict_fraud" =>
    /\ Len(call.invoked) <= 1
    /\ call.exc = "" =>
         LET caps == call.model.caps
         IN  /\ Len(call.invoked) = 1
             /\ call.invoked[1] \in caps
             /\ "predict_proba" \in caps =>
                  /\ call.invoked = <<"predict_proba">>
                  /\ call.proba = call.answer.row[2]
             /\ ("predict_proba" \notin caps /\ "decision_function" \in caps) =>
                  /\ call.invoked = <<"decision_function">>
                  /\ call.proba = Sigmoid(call.answer.row[1]).val
             /\ caps = {"predict"} =>
                  /\ call.invoked = <<"predict">>
                  /\ call.proba \in {0, 1000}

C8_Witness ==
  /\ call.op = "predict_fraud"
  /\ call.exc = ""
  /\ call.model.caps = Capabilities
  /\ call.invoked = <<"predict_proba">>
  /\ call.answer.row = <<800, 200>>
  /\ call.proba = 200
  /\ call.label = 0

----------------------------------------------------------------------------
(* Claim about concurrent first access, under SpecConc *)

\* C1: when the callers invoke load_model together while the artifact is
\* Unloaded and the file holds a pipeline, exactly one deserialization happens
\* and every caller is returned the same object.
C1_OneDeserialization ==
  (file.exists /\ file.ok) =>
     /\ deserialized <= 1
     /\ \A t, u \in Threads :
          (pc[t] = "done" /\ pc[u] = "done") => ret[t] = ret[u]

====
